---- MODULE Spec2Model ----
(***************************************************************************)
(* FarmScout: the listing discovery and filtering pipeline.                *)
(*                                                                         *)
(* The repository holds the pipeline twice: the synchronous one of         *)
(* src/app.py (is_valid_listing_url, get_land_listings with a thread pool) *)
(* and the asynchronous one of src/services.py (ListingService,            *)
(* AsyncScraper).  Both are modelled; the variable impl says which one a   *)
(* behaviour runs.                                                         *)
(*                                                                         *)
(* A string is a sequence of one-character strings, so that lower(),       *)
(* substring tests and the regular expressions are computed character by   *)
(* character.  A long text (page text, snippet) is a record                *)
(* [origin, of, len]: the text that `origin` gave for `of`, of which the    *)
(* first `len` characters are kept; slicing lowers len.                    *)
(***************************************************************************)
EXTENDS Integers, Sequences, FiniteSets, TLC

VARIABLES
    url,            \* classifier run: the URL handed to the classifiers
    classified,     \* classifier run: the classifiers that have answered
    app_valid,      \* classifier run: answer of app.is_valid_listing_url
    svc_valid,      \* classifier run: answer of ListingService.is_valid_listing_url
    impl,           \* which pipeline runs: "app" (src/app.py) or "services"
    location_name,  \* search: the argument location_name
    phase,          \* search: "idle", "strict" loop, "relaxed" loop, "done"
    qi,             \* search: index in sites of the next query to issue
    candidates,     \* search: the list candidates
    seen_urls,      \* search: the set seen_urls (services only)
    issued,         \* search: the provider requests issued so far, in order
    strict_yield,   \* search: len(candidates) when the strict loop ended, -1 before
    received,       \* search: the number of result items received so far
    data,           \* search: what the latest provider request gave
    answered,       \* search: some request of this run got an answer
    raw_items,      \* scrape: the candidates handed to the scrape coordinator
    net,            \* scrape: per candidate, what the network does with its fetch
    spc,            \* scrape: where the coordinator is
    task,           \* scrape: per candidate, where its fetch is
    fetched,        \* scrape: per candidate, what its fetch returned (once it has)
    permits,        \* scrape: the value of AsyncScraper.semaphore
    waiters,        \* scrape: the fetches waiting for the semaphore, in order
    results,        \* scrape: the list results
    status_callback, \* scrape: a status_callback was passed (services only)
    notified,       \* scrape: the calls of status_callback so far, in order
    is_analyzing,   \* analysis: st.session_state.is_analyzing
    analysis_coords, \* analysis: st.session_state.analysis_coords
    analysis_done,  \* analysis: st.session_state.analysis_done
    last_clicked,   \* analysis: map_data["last_clicked"], the point clicked last
    analyze_btn,    \* analysis: the Analyze button was clicked and not yet served
    button_disabled, \* analysis: the Analyze button as rendered last
    overlay,        \* analysis: the overlay and map-disabling CSS as rendered last
    apc,            \* analysis: where the script run is
    address,        \* analysis: the local address
    climate_data,   \* analysis: the local climate_data
    search_location, \* analysis: the local search_location
    listings,       \* analysis: the local listings
    oi,             \* analysis: index in nearby_offsets of the next offset
    searched,       \* analysis: the calls of get_land_listings of this run
    call2           \* search: the locals of a second, concurrent search_listings call

urlVars == <<url, classified, app_valid, svc_valid>>
searchVars == <<location_name, phase, qi, candidates, seen_urls, issued, strict_yield,
                received, data, answered>>
scrapeVars == <<raw_items, net, spc, task, fetched, permits, waiters, results,
                status_callback, notified>>
analysisVars == <<is_analyzing, analysis_coords, analysis_done, last_clicked, analyze_btn,
                  button_disabled, overlay, apc, address, climate_data, search_location,
                  listings, oi, searched>>
concurrentVars == <<call2>>
vars == <<urlVars, impl, searchVars, scrapeVars, analysisVars, concurrentVars>>

----------------------------------------------------------------------------
(* Characters and strings                                                  *)

UpperChars == <<"A","B","C","D","E","F","G","H","I","J","K","L","M",
                "N","O","P","Q","R","S","T","U","V","W","X","Y","Z">>
LowerChars == <<"a","b","c","d","e","f","g","h","i","j","k","l","m",
                "n","o","p","q","r","s","t","u","v","w","x","y","z">>
Digits == {"0","1","2","3","4","5","6","7","8","9"}
LowerSet == {LowerChars[i] : i \in 1..26}

\* str.lower() on one character
ToLower == [c \in {UpperChars[i] : i \in 1..26} |->
                LowerChars[CHOOSE i \in 1..26 : UpperChars[i] = c]]
LowerChar(c) == IF c \in DOMAIN ToLower THEN ToLower[c] ELSE c

\* str.lower()
Lower(s) == [i \in 1..Len(s) |-> LowerChar(s[i])]

\* s[i:] starts with pat
MatchAt(s, i, pat) ==
    /\ i + Len(pat) - 1 <= Len(s)
    /\ \A k \in 1..Len(pat) : s[i + k - 1] = pat[k]

\* pat in s
Contains(s, pat) == \E i \in 1..(Len(s) + 1) : MatchAt(s, i, pat)

\* s[i..j] is a non-empty run of digits
DigitRun(s, i, j) == i <= j /\ \A k \in i..j : s[k] \in Digits

----------------------------------------------------------------------------
(* The URL classifier of src/app.py                                        *)

blocklist_patterns == {
        <<"/","r","e","g","i","o","n","/">>,
        <<"/","t","o","w","n","/">>,
        <<"/","l","a","b","e","l","/">>,
        <<"/","a","g","e","n","c","i","e","s","/">>,
        <<"/","a","g","e","n","c","y","/">>,
        <<"/","s","t","a","t","e","/">>,
        <<"/","s","e","a","r","c","h">>,
        <<"/","b","r","o","w","s","e","/">>,
        <<"/","c","a","t","e","g","o","r","y","/">>,
        <<"/","s","u","b","u","r","b","/">>,
        <<"-","r","u","r","a","l","-","p","r","o","p","e","r","t","y","-","s","e","a","r","c","h">>,
        <<"-","p","r","o","p","e","r","t","y","-","s","e","a","r","c","h">>,
        <<"-","r","e","a","l","-","e","s","t","a","t","e">>,
        <<"-","f","o","r","-","s","a","l","e">>,
        <<"?","p","a","g","e","=">>,
        <<"?","a","c","=">>,
        <<"p","a","g","e","=">>,
        <<"/","s","o","l","d","/">>,
        <<"/","a","u","c","t","i","o","n","s","/">>,
        <<"/","n","e","w","s","/">>,
        <<"/","b","l","o","g","/">>,
        <<"/","g","u","i","d","e","/">>,
        <<"/","a","b","o","u","t","/">>,
        <<"/","c","o","n","t","a","c","t","/">>,
        <<"/","t","e","a","m","/">>
    }

\* re.search(r'-\d+/?$', s)
has_listing_id_at_end(s) ==
    \E i \in 1..Len(s) : \E j \in (i + 1)..Len(s) :
        /\ s[i] = "-"
        /\ DigitRun(s, i + 1, j)
        /\ \/ j = Len(s)
           \/ j = Len(s) - 1 /\ s[Len(s)] = "/"

\* re.search(r'/\d+-', s)
has_listing_id_in_path(s) ==
    \E i \in 1..Len(s) : \E j \in (i + 2)..Len(s) :
        /\ s[i] = "/"
        /\ DigitRun(s, i + 1, j - 1)
        /\ s[j] = "-"

\* re.search(r'/\d{1,5}-[a-z]', s)
has_street_number(s) ==
    \E i \in 1..Len(s) : \E j \in (i + 2)..(Len(s) - 1) :
        /\ s[i] = "/"
        /\ DigitRun(s, i + 1, j - 1)
        /\ (j - 1) - (i + 1) + 1 <= 5
        /\ s[j] = "-"
        /\ s[j + 1] \in LowerSet

\* re.search(r'/property/\d+', s)
has_property_id(s) ==
    \E i \in 1..Len(s) :
        /\ MatchAt(s, i, <<"/","p","r","o","p","e","r","t","y","/">>)
        /\ i + 10 <= Len(s)
        /\ s[i + 10] \in Digits

\* re.search(r'/lot-\d+', s)
has_lot_number(s) ==
    \E i \in 1..Len(s) :
        /\ MatchAt(s, i, <<"/","l","o","t","-">>)
        /\ i + 5 <= Len(s)
        /\ s[i + 5] \in Digits

\* the mutant of is_valid_listing_url that tests the digit rule before the
\* blocklist
is_valid_listing_url_digits_first(u) ==
    LET url_lower == Lower(u) IN
    \/ has_listing_id_at_end(url_lower)
    \/ has_listing_id_in_path(url_lower)
    \/ has_street_number(url_lower)
    \/ has_property_id(url_lower)
    \/ has_lot_number(url_lower)
    \/ ~ \E p \in blocklist_patterns : Contains(url_lower, p)

\* the mutant of is_valid_listing_url that lacks pattern 5 (the lot number)
is_valid_listing_url_no_lot(u) ==
    LET url_lower == Lower(u) IN
    IF \E p \in blocklist_patterns : Contains(url_lower, p)
    THEN FALSE
    ELSE \/ has_listing_id_at_end(url_lower)
         \/ has_listing_id_in_path(url_lower)
         \/ has_street_number(url_lower)
         \/ has_property_id(url_lower)

\* app.is_valid_listing_url
is_valid_listing_url(u) ==
    LET url_lower == Lower(u) IN
    IF \E p \in blocklist_patterns : Contains(url_lower, p)
    THEN FALSE
    ELSE \/ has_listing_id_at_end(url_lower)
         \/ has_listing_id_in_path(url_lower)
         \/ has_street_number(url_lower)
         \/ has_property_id(url_lower)
         \/ has_lot_number(url_lower)

----------------------------------------------------------------------------
(* The URL classifier of src/services.py                                   *)

blocklist == {
        <<"/","l","a","b","e","l","/">>,
        <<"/","s","e","a","r","c","h">>,
        <<"/","a","g","e","n","c","i","e","s","/">>,
        <<"/","a","g","e","n","c","y","/">>,
        <<"/","t","o","w","n","/">>,
        <<"/","r","e","g","i","o","n","/">>,
        <<"?","a","c","=">>,
        <<"p","a","g","e","=">>,
        <<"/","s","o","l","d","/">>,
        <<"/","a","u","c","t","i","o","n","s","/">>,
        <<"/","n","e","w","s","/">>,
        <<"/","b","l","o","g","/">>,
        <<"/","g","u","i","d","e","/">>,
        <<"/","a","b","o","u","t","/">>,
        <<"/","c","o","n","t","a","c","t","/">>,
        <<"/","t","e","a","m","/">>,
        <<"/","u","n","d","e","r","-","o","f","f","e","r","/">>,
        <<"r","e","a","l","e","s","t","a","t","e",".","c","o","m",".","a","u","/","b","u","y","/">>,
        <<"d","o","m","a","i","n",".","c","o","m",".","a","u","/","s","a","l","e","/">>
    }

\* re.search(r'-\d+$', s) or re.search(r'-\d+/$', s)
farmbuy_id_end(s) ==
    \/ \E i \in 1..Len(s) : s[i] = "-" /\ DigitRun(s, i + 1, Len(s))
    \/ \E i \in 1..Len(s) :
          s[i] = "-" /\ DigitRun(s, i + 1, Len(s) - 1) /\ s[Len(s)] = "/"

\* re.search(r'-\d+/?$', s)
has_id_end(s) ==
    \E i \in 1..Len(s) : \E j \in (i + 1)..Len(s) :
        /\ s[i] = "-"
        /\ DigitRun(s, i + 1, j)
        /\ \/ j = Len(s)
           \/ j = Len(s) - 1 /\ s[Len(s)] = "/"

\* re.search(r'/\d{6,}', s)
has_id_path(s) ==
    \E i \in 1..Len(s) : s[i] = "/" /\ i + 6 <= Len(s) /\ DigitRun(s, i + 1, i + 6)

\* "/property-" in s or "/property/" in s
svc_has_property_id(s) ==
    \/ Contains(s, <<"/","p","r","o","p","e","r","t","y","-">>)
    \/ Contains(s, <<"/","p","r","o","p","e","r","t","y","/">>)

\* re.search(r'/\d+-[a-z]', s)
has_address_slug(s) ==
    \E i \in 1..Len(s) : \E j \in (i + 2)..(Len(s) - 1) :
        /\ s[i] = "/"
        /\ DigitRun(s, i + 1, j - 1)
        /\ s[j] = "-"
        /\ s[j + 1] \in LowerSet

\* the mutant of ListingService.is_valid_listing_url without the farmbuy
\* branch
ListingService_is_valid_listing_url_generic(u) ==
    LET url_lower == Lower(u) IN
    IF \E b \in blocklist : Contains(url_lower, b)
    THEN FALSE
    ELSE \/ has_id_end(url_lower)
         \/ has_id_path(url_lower)
         \/ svc_has_property_id(url_lower)
         \/ has_address_slug(url_lower)

\* ListingService.is_valid_listing_url
ListingService_is_valid_listing_url(u) ==
    LET url_lower == Lower(u) IN
    IF \E b \in blocklist : Contains(url_lower, b)
    THEN FALSE
    ELSE IF Contains(url_lower, <<"f","a","r","m","b","u","y",".","c","o","m">>)
    THEN farmbuy_id_end(url_lower)
    ELSE \/ has_id_end(url_lower)
         \/ has_id_path(url_lower)
         \/ svc_has_property_id(url_lower)
         \/ has_address_slug(url_lower)

----------------------------------------------------------------------------
(* Classifier runs: one URL, handed to both classifiers                    *)

MaxParts == 2

Hosts == {
        <<"f","a","r","m","b","u","y",".","c","o","m">>,
        <<"d","o","m","a","i","n",".","c","o","m",".","a","u">>
    }

Pieces == {
        <<"/","n","s","w">>,
        <<"/","R","e","g","i","o","n","/">>,
        <<"?","p","a","g","e","=","2">>,
        <<"-","f","o","r","-","s","a","l","e">>,
        <<"/","s","a","l","e","/">>,
        <<"-","4","8">>,
        <<"/","7","-">>,
        <<"/","2","3","-","r","d">>,
        <<"/","p","r","o","p","e","r","t","y","/">>,
        <<"/","p","r","o","p","e","r","t","y","/","1","2">>,
        <<"/","l","o","t","-","5">>,
        <<"/","1","2","3","4","5","6">>,
        <<"/">>
    }

RECURSIVE Paths(_)
Paths(n) ==
    IF n = 0 THEN {<<>>}
    ELSE Paths(n - 1) \cup {t \o p : t \in Paths(n - 1), p \in Pieces}

Urls == {h \o t : h \in Hosts, t \in Paths(MaxParts)}

UrlIdle ==
    /\ url = <<>>
    /\ classified = {}
    /\ app_valid = FALSE
    /\ svc_valid = FALSE

UrlInit ==
    /\ url \in Urls
    /\ classified = {}
    /\ app_valid = FALSE
    /\ svc_valid = FALSE

ClassifyApp ==
    /\ "app" \notin classified
    /\ app_valid' = is_valid_listing_url(url)
    /\ classified' = classified \cup {"app"}
    /\ UNCHANGED <<url, svc_valid, impl, analysisVars, call2, searchVars, scrapeVars>>

ClassifyService ==
    /\ "services" \notin classified
    /\ svc_valid' = ListingService_is_valid_listing_url(url)
    /\ classified' = classified \cup {"services"}
    /\ UNCHANGED <<url, app_valid, impl, analysisVars, call2, searchVars, scrapeVars>>

UrlNext == ClassifyApp \/ ClassifyService


----------------------------------------------------------------------------
(* The search aggregator: ListingService.search_listings and the search    *)
(* part of app.get_land_listings                                           *)

\* the number of result items the provider returns in one run, over all
\* of its responses
MaxItems == 3

EXCLUDED_TITLE_KEYWORDS == {
        <<"m","a","r","k","e","t"," ","r","e","p","o","r","t">>,
        <<"b","u","y","e","r","s"," ","g","u","i","d","e">>,
        <<"b","u","y","e","r","'","s"," ","g","u","i","d","e">>,
        <<"n","e","w","s"," ","a","r","t","i","c","l","e">>,
        <<"b","l","o","g"," ","p","o","s","t">>
    }

\* app.is_valid_listing_title
is_valid_listing_title(title) ==
    LET title_lower == Lower(title) IN
    ~ \E keyword \in EXCLUDED_TITLE_KEYWORDS : Contains(title_lower, keyword)

\* A query string is the sequence of its space-separated terms; the term
\* "{location_name}" stands for the interpolated location name, and
\* exclusions is one term.
exclusions ==
    "-inurl:agencies -inurl:label -inurl:search -inurl:page -inurl:town -inurl:region -sold -under-offer"

\* sites of ListingService.search_listings
search_listings_sites == <<
    [source |-> "Farmbuy",
     query |-> <<"site:farmbuy.com", "{location_name}", "\"price\"", "\"acres\"", exclusions>>],
    [source |-> "Elders",
     query |-> <<"site:eldersrealestate.com.au", "{location_name}", "rural", "\"price\"", exclusions>>],
    [source |-> "RealEstate.com.au",
     query |-> <<"site:realestate.com.au", "{location_name}", "rural", "land", "\"price\"", exclusions>>],
    [source |-> "Domain",
     query |-> <<"site:domain.com.au", "{location_name}", "rural", "\"price\"", exclusions>>]
  >>

\* sites of app.get_land_listings
get_land_listings_sites == <<
    [source |-> "Farmbuy",
     query |-> <<"site:farmbuy.com", "{location_name}", "\"price\"", "inurl:-">>],
    [source |-> "Elders",
     query |-> <<"site:eldersrealestate.com.au", "{location_name}", "rural", "\"price\"">>],
    [source |-> "RealEstate.com.au",
     query |-> <<"site:realestate.com.au", "{location_name}", "rural", "land", "\"price\"">>]
  >>

sites == IF impl = "app" THEN get_land_listings_sites ELSE search_listings_sites

\* str.replace(old, new), on sequences of terms
RECURSIVE Replace(_, _, _)
Replace(q, old, new) ==
    IF Len(q) < Len(old) THEN q
    ELSE IF SubSeq(q, 1, Len(old)) = old
         THEN new \o Replace(SubSeq(q, Len(old) + 1, Len(q)), old, new)
         ELSE <<Head(q)>> \o Replace(Tail(q), old, new)

\* fallback_query of ListingService.search_listings
search_listings_fallback_query(query) ==
    Replace(query, <<"\"price\"", "\"acres\"">>, <<"land", "for", "sale">>)

\* fallback_query of app.get_land_listings
get_land_listings_fallback_query(query) ==
    Replace(Replace(query, <<"\"price\"", "inurl:-">>, <<"land", "for", "sale">>),
            <<"\"price\"">>, <<"land">>)

\* the result items the provider answers with: two listings, a blocklisted
\* page with an id, a page without any identifier, and a blog post at the
\* URL of the second listing
Items == {
        [link |-> <<"f","a","r","m","b","u","y",".","c","o","m","/","n","s","w","-","4","8">>,
         title |-> <<"F","a","r","m">>],
        [link |-> <<"d","o","m","a","i","n",".","c","o","m",".","a","u","/","2","3","-","r","d">>,
         title |-> <<"F","a","r","m">>],
        [link |-> <<"f","a","r","m","b","u","y",".","c","o","m","/","R","e","g","i","o","n","/","-","4","8">>,
         title |-> <<"F","a","r","m">>],
        [link |-> <<"d","o","m","a","i","n",".","c","o","m",".","a","u","/","n","s","w">>,
         title |-> <<"F","a","r","m">>],
        [link |-> <<"d","o","m","a","i","n",".","c","o","m",".","a","u","/","2","3","-","r","d">>,
         title |-> <<"B","l","o","g"," ","P","o","s","t">>]
    }

\* The classifiers are pure; their answers for the result items are
\* tabulated once.
is_valid_listing_url_of == [u \in {i.link : i \in Items} |-> is_valid_listing_url(u)]
ListingService_is_valid_listing_url_of ==
    [u \in {i.link : i \in Items} |-> ListingService_is_valid_listing_url(u)]
is_valid_listing_title_of == [t \in {i.title : i \in Items} |-> is_valid_listing_title(t)]

\* the item loop of ListingService.search_listings (both passes): dedup by
\* seen_urls, then the classifier
RECURSIVE search_listings_items(_, _, _)
search_listings_items(items, cands, seen) ==
    IF items = <<>> THEN [candidates |-> cands, seen_urls |-> seen]
    ELSE LET item == Head(items)
             item_url == item.link
         IN  IF item_url \in seen
             THEN search_listings_items(Tail(items), cands, seen)
             ELSE IF ListingService_is_valid_listing_url_of[item_url]
                  THEN search_listings_items(Tail(items), Append(cands, item),
                                             seen \cup {item_url})
                  ELSE search_listings_items(Tail(items), cands, seen)

\* the mutant of the strict item loop that puts new candidates in front
get_land_listings_items_prepended(items, cands) ==
    SelectSeq(items, LAMBDA item : is_valid_listing_title_of[item.title]
                                   /\ is_valid_listing_url_of[item.link]) \o cands

\* the strict item loop of app.get_land_listings: title and URL checks
RECURSIVE get_land_listings_items(_, _)
get_land_listings_items(items, cands) ==
    IF items = <<>> THEN cands
    ELSE LET item == Head(items) IN
         IF is_valid_listing_title_of[item.title] /\ is_valid_listing_url_of[item.link]
         THEN get_land_listings_items(Tail(items), Append(cands, item))
         ELSE get_land_listings_items(Tail(items), cands)

fallback_blocklist == {
        <<"/","a","g","e","n","c","i","e","s","/">>,
        <<"/","a","g","e","n","c","y","/">>,
        <<"/","s","t","a","t","e","/">>,
        <<"/","r","e","g","i","o","n","/">>,
        <<"-","p","r","o","p","e","r","t","y","-","s","e","a","r","c","h">>,
        <<"/","s","e","a","r","c","h">>,
        <<"?","p","a","g","e","=">>,
        <<"?","a","c","=">>
    }

\* is_blocked of the fallback loop of app.get_land_listings, tabulated
is_blocked_of ==
    [u \in {i.link : i \in Items} |->
        \E p \in fallback_blocklist : Contains(Lower(u), p)]

\* the fallback item loop of app.get_land_listings: data['organic'][:15],
\* reduced blocklist only
RECURSIVE get_land_listings_fallback_items(_, _)
get_land_listings_fallback_items(items, cands) ==
    IF items = <<>> THEN cands
    ELSE LET item == Head(items)
             is_blocked == is_blocked_of[item.link]
         IN  IF ~is_blocked
             THEN get_land_listings_fallback_items(Tail(items), Append(cands, item))
             ELSE get_land_listings_fallback_items(Tail(items), cands)

\* "Region near" in location_name
is_region_near(loc) ==
    Contains(loc, <<"R","e","g","i","o","n"," ","n","e","a","r">>)

\* ListingService.search_listings after the strict loop: "relaxed" to run
\* the fallback loop, "done" to return
search_listings_after_strict(cands, loc) ==
    IF cands = <<>>
    THEN IF is_region_near(loc) THEN "done" ELSE "relaxed"
    ELSE "done"

\* the mutant of get_land_listings_after_strict that never falls back
get_land_listings_after_strict_never(cands) == "done"

\* app.get_land_listings after the strict loop
get_land_listings_after_strict(cands) ==
    IF cands = <<>> THEN "relaxed" ELSE "done"

Locations == {
        <<"D","u","b","b","o",","," ","N","S","W">>,
        <<"R","e","g","i","o","n"," ","n","e","a","r"," ","-","3","3",".","0",","," ","1","4","8",".","6">>
    }

RECURSIVE ItemLists(_)
ItemLists(n) ==
    IF n = 0 THEN {<<>>}
    ELSE ItemLists(n - 1) \cup {Append(l, i) : l \in ItemLists(n - 1), i \in Items}

\* what requests.post(...).json() gives: an exception, a document without
\* 'organic', or a document with the list 'organic'
ResponsesUpTo ==
    [n \in 0..MaxItems |->
        {[kind |-> "exception", organic |-> <<>>], [kind |-> "no_organic", organic |-> <<>>]}
        \cup {[kind |-> "organic", organic |-> l] : l \in ItemLists(n)}]

Responses(n) == ResponsesUpTo[n]

\* the mutant of the try/except in which a transport error is not caught
request_raises_uncaught(resp) == resp.kind = "exception"

\* the mutant of the try/except in which a missing 'organic' is an error
request_raises_no_organic(resp) == resp.kind = "no_organic"

\* try: ... except Exception: pass around one request: whatever
\* requests.post or response.json() raises, nothing leaves the loop body
request_raises(resp) == FALSE

\* the phase after one pass of a loop: the exception if one leaves the
\* pass, else the next pass or what follows the loop
after_pass(resp, next) == IF request_raises(resp) THEN "raised" ELSE next

Take(sq, n) == SubSeq(sq, 1, IF Len(sq) < n THEN Len(sq) ELSE n)

\* the mutant in which seen_urls is one set of the service, shared by its
\* calls
seen_by_shared(own, others) == own \cup others

\* "seen_urls = set()": the set a call tests and extends is its own local
seen_by(own, others) == own

\* no second call
NoCall == [location_name |-> <<>>, phase |-> "idle", qi |-> 0, candidates |-> <<>>,
           seen_urls |-> {}]

ConcurrentIdle == call2 = NoCall

SearchIdle ==
    /\ location_name = <<>>
    /\ phase = "idle"
    /\ qi = 0
    /\ candidates = <<>>
    /\ seen_urls = {}
    /\ issued = <<>>
    /\ strict_yield = -1
    /\ received = 0
    /\ data = [kind |-> "none", organic |-> <<>>]
    /\ answered = FALSE

SearchInit ==
    /\ impl \in {"app", "services"}
    /\ location_name \in Locations
    /\ phase = "strict"
    /\ qi = 1
    /\ candidates = <<>>
    /\ seen_urls = {}
    /\ issued = <<>>
    /\ strict_yield = -1
    /\ received = 0
    /\ data = [kind |-> "none", organic |-> <<>>]
    /\ answered = FALSE

\* one pass of the strict loop of ListingService.search_listings; the last
\* pass runs on to the return or into the fallback loop
SearchListingsStrict ==
    /\ impl = "services" /\ phase = "strict"
    /\ \E resp \in Responses(MaxItems - received) :
        LET r == IF resp.kind = "organic"
                 THEN search_listings_items(resp.organic, candidates,
                                             seen_by(seen_urls, call2.seen_urls))
                 ELSE [candidates |-> candidates, seen_urls |-> seen_urls]
            last == qi = Len(search_listings_sites)
        IN  /\ issued' = Append(issued, [pass |-> "strict", num |-> 25,
                                         source |-> search_listings_sites[qi].source,
                                         q |-> search_listings_sites[qi].query])
            /\ received' = received + Len(resp.organic)
            /\ data' = resp
            /\ answered' = (answered \/ resp.kind # "exception")
            /\ candidates' = r.candidates
            /\ seen_urls' = r.seen_urls
            /\ qi' = IF last THEN 1 ELSE qi + 1
            /\ phase' = after_pass(resp,
                            IF last
                            THEN search_listings_after_strict(r.candidates, location_name)
                            ELSE "strict")
            /\ strict_yield' = IF last THEN Len(r.candidates) ELSE strict_yield
    /\ UNCHANGED <<urlVars, scrapeVars, impl, analysisVars, call2, location_name>>

\* one pass of the fallback loop of ListingService.search_listings
SearchListingsRelaxed ==
    /\ impl = "services" /\ phase = "relaxed"
    /\ \E resp \in Responses(MaxItems - received) :
        LET r == IF resp.kind = "organic"
                 THEN search_listings_items(resp.organic, candidates,
                                             seen_by(seen_urls, call2.seen_urls))
                 ELSE [candidates |-> candidates, seen_urls |-> seen_urls]
            last == qi = Len(search_listings_sites)
        IN  /\ issued' = Append(issued, [pass |-> "relaxed", num |-> 20,
                    source |-> search_listings_sites[qi].source,
                    q |-> search_listings_fallback_query(search_listings_sites[qi].query)])
            /\ received' = received + Len(resp.organic)
            /\ data' = resp
            /\ answered' = (answered \/ resp.kind # "exception")
            /\ candidates' = r.candidates
            /\ seen_urls' = r.seen_urls
            /\ qi' = IF last THEN 1 ELSE qi + 1
            /\ phase' = after_pass(resp, IF last THEN "done" ELSE "relaxed")
    /\ UNCHANGED <<urlVars, scrapeVars, impl, analysisVars, call2, location_name, strict_yield>>

\* one pass of the strict loop of app.get_land_listings
GetLandListingsStrict ==
    /\ impl = "app" /\ phase = "strict"
    /\ \E resp \in Responses(MaxItems - received) :
        LET cands == IF resp.kind = "organic"
                     THEN get_land_listings_items(resp.organic, candidates)
                     ELSE candidates
            last == qi = Len(get_land_listings_sites)
        IN  /\ issued' = Append(issued, [pass |-> "strict", num |-> 30,
                                         source |-> get_land_listings_sites[qi].source,
                                         q |-> get_land_listings_sites[qi].query])
            /\ received' = received + Len(resp.organic)
            /\ data' = resp
            /\ answered' = (answered \/ resp.kind # "exception")
            /\ candidates' = cands
            /\ qi' = IF last THEN 1 ELSE qi + 1
            /\ phase' = after_pass(resp,
                            IF last THEN get_land_listings_after_strict(cands) ELSE "strict")
            /\ strict_yield' = IF last THEN Len(cands) ELSE strict_yield
    /\ UNCHANGED <<urlVars, scrapeVars, impl, analysisVars, call2, location_name, seen_urls>>

\* one pass of the fallback loop of app.get_land_listings
GetLandListingsRelaxed ==
    /\ impl = "app" /\ phase = "relaxed"
    /\ \E resp \in Responses(MaxItems - received) :
        LET cands == IF resp.kind = "organic"
                     THEN get_land_listings_fallback_items(Take(resp.organic, 15), candidates)
                     ELSE candidates
            last == qi = Len(get_land_listings_sites)
        IN  /\ issued' = Append(issued, [pass |-> "relaxed", num |-> 20,
                    source |-> get_land_listings_sites[qi].source,
                    q |-> get_land_listings_fallback_query(get_land_listings_sites[qi].query)])
            /\ received' = received + Len(resp.organic)
            /\ data' = resp
            /\ answered' = (answered \/ resp.kind # "exception")
            /\ candidates' = cands
            /\ qi' = IF last THEN 1 ELSE qi + 1
            /\ phase' = after_pass(resp, IF last THEN "done" ELSE "relaxed")
    /\ UNCHANGED <<urlVars, scrapeVars, impl, analysisVars, call2, location_name, seen_urls, strict_yield>>

\* the mutant of the orchestrator that goes on to scrape an empty list
after_search_always_scrape(cands) == "searched"

\* what the orchestrator does with the returned candidates: "done" to
\* return the empty list at once, "searched" to go on to the scraping
after_search(cands) == IF cands = <<>> THEN "done" ELSE "searched"

\* the search returns candidates to its caller: get_listings_with_content
\* (raw_items, "if not raw_items: return []") or the scraping part of
\* get_land_listings ("if candidates:", else results stays [])
SearchReturn ==
    /\ phase = "done" /\ spc = "idle"
    /\ raw_items' = candidates
    /\ spc' = after_search(candidates)
    /\ results' = <<>>
    /\ UNCHANGED <<urlVars, impl, analysisVars, call2, searchVars, net, task, fetched, permits, waiters,
                   status_callback, notified>>

SearchNext ==
    \/ SearchListingsStrict
    \/ SearchListingsRelaxed
    \/ GetLandListingsStrict
    \/ GetLandListingsRelaxed
    \/ SearchReturn

\* Two calls of ListingService.search_listings on one service, interleaved
\* pass by pass (each runs in a thread of the executor), for the same
\* location.  The first call has the search variables, the second one the
\* record call2.
ConcurrentInit ==
    /\ impl = "services"
    /\ SearchInit
    /\ call2 = [location_name |-> location_name, phase |-> "strict", qi |-> 1,
                candidates |-> <<>>, seen_urls |-> {}]

\* one pass of the strict loop of the second call
SecondSearchListingsStrict ==
    /\ impl = "services" /\ call2.phase = "strict"
    /\ \E resp \in Responses(MaxItems - received) :
        LET r == IF resp.kind = "organic"
                 THEN search_listings_items(resp.organic, call2.candidates,
                                            seen_by(call2.seen_urls, seen_urls))
                 ELSE [candidates |-> call2.candidates, seen_urls |-> call2.seen_urls]
            last == call2.qi = Len(search_listings_sites)
        IN  /\ received' = received + Len(resp.organic)
            /\ call2' = [call2 EXCEPT
                  !.candidates = r.candidates,
                  !.seen_urls = r.seen_urls,
                  !.qi = IF last THEN 1 ELSE call2.qi + 1,
                  !.phase = after_pass(resp,
                                IF last
                                THEN search_listings_after_strict(r.candidates,
                                                                  call2.location_name)
                                ELSE "strict")]
    /\ UNCHANGED <<urlVars, scrapeVars, impl, analysisVars, location_name, phase, qi,
                   candidates, seen_urls, issued, strict_yield, data, answered>>

\* one pass of the fallback loop of the second call
SecondSearchListingsRelaxed ==
    /\ impl = "services" /\ call2.phase = "relaxed"
    /\ \E resp \in Responses(MaxItems - received) :
        LET r == IF resp.kind = "organic"
                 THEN search_listings_items(resp.organic, call2.candidates,
                                            seen_by(call2.seen_urls, seen_urls))
                 ELSE [candidates |-> call2.candidates, seen_urls |-> call2.seen_urls]
            last == call2.qi = Len(search_listings_sites)
        IN  /\ received' = received + Len(resp.organic)
            /\ call2' = [call2 EXCEPT
                  !.candidates = r.candidates,
                  !.seen_urls = r.seen_urls,
                  !.qi = IF last THEN 1 ELSE call2.qi + 1,
                  !.phase = after_pass(resp, IF last THEN "done" ELSE "relaxed")]
    /\ UNCHANGED <<urlVars, scrapeVars, impl, analysisVars, location_name, phase, qi,
                   candidates, seen_urls, issued, strict_yield, data, answered>>

ConcurrentNext ==
    \/ SearchListingsStrict
    \/ SearchListingsRelaxed
    \/ SecondSearchListingsStrict
    \/ SecondSearchListingsRelaxed

----------------------------------------------------------------------------
(* The scrape coordinator: ListingService.get_listings_with_content with   *)
(* AsyncScraper, and the thread pool of app.get_land_listings              *)

MaxCands == 2

max_concurrency == 10
max_workers == 10

\* Python's None, the empty string, and a missing dictionary key
NoneValue == [origin |-> "None", of |-> <<>>, len |-> 0]
EmptyText == [origin |-> "str", of |-> <<>>, len |-> 0]
Absent == [origin |-> "absent", of |-> <<>>, len |-> 0]
AbsentStr == <<"<absent>">>
NoneStr == <<"<None>">>

\* the first len characters of the text that `origin` gave for `of`
Text(origin, of, len) ==
    IF len = 0 THEN EmptyText ELSE [origin |-> origin, of |-> of, len |-> len]

\* t[:n]
Slice(t, n) == IF t.len <= n THEN t ELSE Text(t.origin, t.of, n)

\* bool(t)
Truthy(t) == t # NoneValue /\ t.len > 0

\* dict.get(key, default), for a text and for a short string
Get(value, default) == IF value = Absent THEN default ELSE value
GetStr(value, default) == IF value = AbsentStr THEN default ELSE value

\* a or b, on strings that may be missing
Or(a, b) == IF a # AbsentStr /\ a # <<>> THEN a ELSE IF b = AbsentStr THEN NoneStr ELSE b

\* AsyncScraper._clean_html: the visible text of the page, cut to 5000
_clean_html(link, html_len) == Slice(Text("page", link, html_len), 5000)

\* the mutant of fetch_text without its test of the status
fetch_text_any_status(link, outcome) ==
    IF outcome.kind \in {"ok", "status"}
    THEN [raised |-> FALSE, value |-> _clean_html(link, outcome.len)]
    ELSE [raised |-> FALSE, value |-> NoneValue]

\* the mutant of fetch_text without its try/except
fetch_text_uncaught(link, outcome) ==
    IF outcome.kind = "ok"
    THEN [raised |-> FALSE, value |-> _clean_html(link, outcome.len)]
    ELSE IF outcome.kind = "status"
    THEN [raised |-> FALSE, value |-> NoneValue]
    ELSE [raised |-> TRUE, value |-> NoneValue]

\* AsyncScraper.fetch_text, from the moment it holds the semaphore: the text
\* on status 200, None on another status, None on any exception (a timeout
\* is one)
fetch_text(link, outcome) ==
    IF outcome.kind = "ok"
    THEN [raised |-> FALSE, value |-> _clean_html(link, outcome.len)]
    ELSE IF outcome.kind = "status"
    THEN [raised |-> FALSE, value |-> NoneValue]
    ELSE [raised |-> FALSE, value |-> NoneValue]

\* the mutant of the release that keeps the permit of a request that timed
\* out or failed
semaphore_release_on_response(value, outcome) ==
    IF outcome.kind = "timeout" THEN value ELSE value + 1

\* "async with self.semaphore": leaving the block gives the permit back,
\* by return or by exception
semaphore_release(value, outcome) == value + 1

\* the mutant of the semaphore test that always lets a fetch in
semaphore_free_always(value) == TRUE

\* asyncio.Semaphore: a permit is free
semaphore_free(value) == value > 0

\* the mutant of the merge step that prefers the snippet to the text
ListingItem_snippet_first(item, text) ==
    LET snippet == Get(item.snippet, EmptyText)
        content == IF Truthy(snippet) THEN snippet ELSE text
    IN  [title |-> GetStr(item.title, <<"U","n","k","n","o","w","n">>),
         url |-> item.link,
         image |-> Or(item.imageUrl, item.thumbnail),
         scraped_content |-> content]

\* the merge step of get_listings_with_content for one (item, text) pair
ListingItem(item, text) ==
    LET content == IF Truthy(text) THEN text ELSE Get(item.snippet, EmptyText) IN
    [title |-> GetStr(item.title, <<"U","n","k","n","o","w","n">>),
     url |-> item.link,
     image |-> Or(item.imageUrl, item.thumbnail),
     scraped_content |-> content]

\* the mutant of the merge that pairs every item with the first text
MergeResults_first_text(items, texts) ==
    [k \in 1..Len(items) |-> ListingItem(items[k], texts[1])]

\* zip(raw_items, scraped_texts) merged into results
RECURSIVE MergeResults(_, _)
MergeResults(items, texts) ==
    IF items = <<>> \/ texts = <<>> THEN <<>>
    ELSE <<ListingItem(Head(items), Head(texts))>> \o MergeResults(Tail(items), Tail(texts))

\* app.scrape_listing_page: text[:5000] on status 200, None on another
\* status, None on any exception (a timeout is one)
scrape_listing_page(link, outcome) ==
    IF outcome.kind = "ok"
    THEN [raised |-> FALSE, value |-> Slice(Text("page", link, outcome.len), 5000)]
    ELSE IF outcome.kind = "status"
    THEN [raised |-> FALSE, value |-> NoneValue]
    ELSE [raised |-> FALSE, value |-> NoneValue]

\* the mutant of scrape_with_metadata that ignores the snippet
scrape_with_metadata_no_fallback(item, outcome) ==
    LET scraped_text == scrape_listing_page(item.link, outcome)
        content == IF Truthy(scraped_text.value) THEN scraped_text.value ELSE EmptyText
    IN  [raised |-> scraped_text.raised,
         value |-> [title |-> GetStr(item.title, <<"U","n","t","i","t","l","e","d">>),
                    url |-> item.link,
                    image |-> Or(item.imageUrl, item.thumbnail),
                    scraped_content |-> Slice(content, 3000)]]

\* app.scrape_with_metadata; an exception of scrape_listing_page would
\* leave it too
scrape_with_metadata(item, outcome) ==
    LET snippet == Get(item.snippet, Text("default", <<>>, 25))
        scraped_text == scrape_listing_page(item.link, outcome)
        content == IF Truthy(scraped_text.value) THEN scraped_text.value ELSE snippet
    IN  [raised |-> scraped_text.raised,
         value |-> [title |-> GetStr(item.title, <<"U","n","t","i","t","l","e","d">>),
                    url |-> item.link,
                    image |-> Or(item.imageUrl, item.thumbnail),
                    scraped_content |-> Slice(content, 3000)]]

\* the except branch of the as_completed loop: the snippet-only listing
snippet_only(item) ==
    [title |-> GetStr(item.title, <<"U","n","t","i","t","l","e","d">>),
     url |-> item.link,
     image |-> Or(item.imageUrl, item.thumbnail),
     scraped_content |-> Get(item.snippet, Text("default", <<>>, 25))]

\* the body of the as_completed loop for one future
future_result(item, future) ==
    IF future.raised THEN snippet_only(item) ELSE future.value

\* a thread of the ThreadPoolExecutor is free
worker_free(running) == running < max_workers

DigitChars == <<"0","1","2","3","4","5","6","7","8","9">>
Decimal(k) == IF k < 10 THEN <<DigitChars[k + 1]>>
              ELSE <<DigitChars[(k \div 10) + 1], DigitChars[(k % 10) + 1]>>

\* the k-th candidate: a farmbuy listing with snippet s
Candidate(k, s) ==
    [link |-> <<"f","a","r","m","b","u","y",".","c","o","m","/","n","s","w","-">> \o Decimal(k),
     title |-> <<"F","a","r","m"," ">> \o Decimal(k),
     snippet |-> IF s = Absent THEN Absent ELSE Text("snippet", Decimal(k), s.len),
     imageUrl |-> IF k % 2 = 1 THEN <<"i","m","g">> \o Decimal(k) ELSE AbsentStr,
     thumbnail |-> <<"t","h","u","m","b">> \o Decimal(k)]

\* a snippet: missing, of usual length, or longer than any cut (3000, 5000)
Snippets == {Absent, [origin |-> "snippet", of |-> <<>>, len |-> 80],
             [origin |-> "snippet", of |-> <<>>, len |-> 5500]}

\* what the network does with one fetch: status 200 with a page whose
\* text is empty, 4000 or 6000 characters long; another status; a timeout
Outcomes == {[kind |-> "ok", len |-> 0], [kind |-> "ok", len |-> 4000],
             [kind |-> "ok", len |-> 6000], [kind |-> "status", len |-> 0],
             [kind |-> "timeout", len |-> 0]}

Indices == 1..Len(raw_items)
TasksIn(st) == {i \in Indices : task[i] = st}

\* "if status_callback: status_callback(message, fraction)"; the fraction is
\* counted in tenths
notify(callback, log, message, tenths) ==
    IF callback THEN Append(log, [message |-> message, tenths |-> tenths]) ELSE log

ScrapeIdle ==
    /\ raw_items = <<>>
    /\ net = <<>>
    /\ spc = "idle"
    /\ task = <<>>
    /\ fetched = <<>>
    /\ permits = 0
    /\ waiters = <<>>
    /\ results = <<>>
    /\ status_callback = FALSE
    /\ notified = <<>>

\* The search has returned raw_items.  Either up to MaxCands candidates with
\* any snippets and any network outcomes, or one candidate more than the
\* concurrency limit: max_concurrency + 1 distinct ones for the services
\* pipeline, which deduplicates, and max_workers + 1 results of one URL for
\* the app pipeline, which does not.
\* get_listings_with_content has called its status_callback once before
\* the search; runs of at most one candidate are started with and without
\* a callback, the others with one.
ScrapeInit ==
    /\ impl \in {"app", "services"}
    /\ \/ \E n \in 0..MaxCands :
            \E sn \in [1..n -> Snippets] : \E out \in [1..n -> Outcomes] :
                /\ raw_items = [k \in 1..n |-> Candidate(k, sn[k])]
                /\ net = out
       \/ /\ impl = "services"
          /\ raw_items = [k \in 1..(max_concurrency + 1) |->
                            Candidate(k, [origin |-> "snippet", of |-> <<>>, len |-> 80])]
          /\ net = [k \in 1..(max_concurrency + 1) |->
                        IF k % 2 = 0 THEN [kind |-> "timeout", len |-> 0]
                        ELSE [kind |-> "ok", len |-> 4000]]
       \/ /\ impl = "app"
          /\ raw_items = [k \in 1..(max_workers + 1) |->
                            Candidate(1, [origin |-> "snippet", of |-> <<>>, len |-> 80])]
          /\ net = [k \in 1..(max_workers + 1) |-> [kind |-> "timeout", len |-> 0]]
    /\ spc = "searched"
    /\ task = [k \in 1..Len(raw_items) |-> "new"]
    /\ fetched = [k \in 1..Len(raw_items) |-> NoneValue]
    /\ permits = 0
    /\ waiters = <<>>
    /\ results = <<>>
    /\ status_callback \in (IF impl = "app" THEN {FALSE}
                             ELSE IF Len(raw_items) <= 1 THEN BOOLEAN ELSE {TRUE})
    /\ notified = notify(status_callback, <<>>, <<"Finding properties...">>, 1)

\* get_listings_with_content after the search: return [] when there are no
\* candidates, else create the scraper and the tasks and await the gather
GetListingsBegin ==
    /\ impl = "services" /\ spc = "searched"
    /\ IF raw_items = <<>>
       THEN /\ spc' = "done"
            /\ UNCHANGED <<task, permits, notified>>
       ELSE /\ spc' = "gather"
            /\ task' = [k \in Indices |-> "pending"]
            /\ permits' = max_concurrency
            /\ notified' = notify(status_callback, notified,
                                  <<"Scraping ">> \o Decimal(Len(raw_items))
                                      \o <<" sites in parallel...">>, 3)
    /\ UNCHANGED <<urlVars, impl, analysisVars, call2, searchVars, raw_items, net, fetched, waiters, results,
                   status_callback>>

\* the first step of the next task, in the order of the gather: take a
\* permit and issue the request, or queue up for the semaphore
FetchTextStart(i) ==
    /\ impl = "services" /\ spc = "gather"
    /\ task[i] = "pending"
    /\ \A j \in 1..(i - 1) : task[j] # "pending"
    /\ IF semaphore_free(permits) /\ waiters = <<>>
       THEN /\ permits' = permits - 1
            /\ task' = [task EXCEPT ![i] = "fetching"]
            /\ UNCHANGED waiters
       ELSE /\ waiters' = Append(waiters, i)
            /\ task' = [task EXCEPT ![i] = "waiting"]
            /\ UNCHANGED permits
    /\ UNCHANGED <<urlVars, impl, analysisVars, call2, searchVars, raw_items, net, spc, fetched, results,
                   status_callback, notified>>

\* the first waiter is woken and takes the permit that was released
FetchTextAcquire(i) ==
    /\ impl = "services" /\ spc = "gather"
    /\ waiters # <<>> /\ i = Head(waiters)
    /\ semaphore_free(permits)
    /\ permits' = permits - 1
    /\ waiters' = Tail(waiters)
    /\ task' = [task EXCEPT ![i] = "fetching"]
    /\ UNCHANGED <<urlVars, impl, analysisVars, call2, searchVars, raw_items, net, spc, fetched, results,
                   status_callback, notified>>

\* a request ends (the event loop has run every task's first step by then):
\* the permit is released and fetch_text returns; an exception that left
\* fetch_text would leave the gather and get_listings_with_content.  When
\* the last task is done the gather returns and the results are merged.
FetchTextEnd(i) ==
    /\ impl = "services" /\ spc = "gather"
    /\ task[i] = "fetching"
    /\ TasksIn("pending") = {}
    /\ LET r == fetch_text(raw_items[i].link, net[i])
           texts == [fetched EXCEPT ![i] = r.value]
           all_done == \A j \in Indices \ {i} : task[j] = "done"
       IN  /\ permits' = semaphore_release(permits, net[i])
           /\ task' = [task EXCEPT ![i] = "done"]
           /\ fetched' = texts
           /\ spc' = IF r.raised THEN "raised" ELSE IF all_done THEN "done" ELSE "gather"
           /\ results' = IF ~r.raised /\ all_done
                         THEN MergeResults(raw_items, texts) ELSE results
    /\ UNCHANGED <<urlVars, impl, analysisVars, call2, searchVars, raw_items, net, waiters,
                   status_callback, notified>>

\* get_land_listings after the search: return [] when there are no
\* candidates, else submit one scrape_with_metadata per candidate
GetLandListingsSubmit ==
    /\ impl = "app" /\ spc = "searched"
    /\ IF raw_items = <<>>
       THEN spc' = "done" /\ UNCHANGED task
       ELSE spc' = "pool" /\ task' = [k \in Indices |-> "queued"]
    /\ UNCHANGED <<urlVars, impl, analysisVars, call2, searchVars, raw_items, net, fetched, permits, waiters,
                   results,
                   status_callback, notified>>

\* a free worker thread takes the oldest queued work item and calls
\* scrape_with_metadata, which issues the request
WorkerStart(i) ==
    /\ impl = "app" /\ spc = "pool"
    /\ task[i] = "queued"
    /\ \A j \in 1..(i - 1) : task[j] # "queued"
    /\ worker_free(Cardinality(TasksIn("running")))
    /\ task' = [task EXCEPT ![i] = "running"]
    /\ UNCHANGED <<urlVars, impl, analysisVars, call2, searchVars, raw_items, net, spc, fetched, permits,
                   waiters, results,
                   status_callback, notified>>

\* Work items of the same candidate with the same network outcome are
\* interchangeable: a step that any of them could take is taken by the
\* oldest one, which leaves the same runs up to renaming those items.
OldestOfItsKind(i) ==
    \A j \in 1..(i - 1) :
        task[j] = task[i] => raw_items[j] # raw_items[i] \/ net[j] # net[i]

\* scrape_with_metadata returns; the future holds its result
WorkerEnd(i) ==
    /\ impl = "app" /\ spc = "pool"
    /\ task[i] = "running"
    /\ OldestOfItsKind(i)
    /\ task' = [task EXCEPT ![i] = "finished"]
    /\ fetched' = [fetched EXCEPT ![i] = scrape_with_metadata(raw_items[i], net[i])]
    /\ UNCHANGED <<urlVars, impl, analysisVars, call2, searchVars, raw_items, net, spc, permits, waiters,
                   results,
                   status_callback, notified>>

\* as_completed yields a finished future and its result (a non-empty dict,
\* or the snippet-only listing if the future raised) is appended; after the
\* last one get_land_listings returns results
AsCompleted(i) ==
    /\ impl = "app" /\ spc = "pool"
    /\ task[i] = "finished"
    /\ OldestOfItsKind(i)
    /\ task' = [task EXCEPT ![i] = "collected"]
    /\ results' = Append(results, future_result(raw_items[i], fetched[i]))
    /\ spc' = IF \A j \in Indices \ {i} : task[j] = "collected" THEN "done" ELSE "pool"
    /\ UNCHANGED <<urlVars, impl, analysisVars, call2, searchVars, raw_items, net, fetched, permits, waiters,
                   status_callback, notified>>

ScrapeNext ==
    \/ GetListingsBegin
    \/ \E i \in Indices : FetchTextStart(i)
    \/ \E i \in Indices : FetchTextAcquire(i)
    \/ \E i \in Indices : FetchTextEnd(i)
    \/ GetLandListingsSubmit
    \/ \E i \in Indices : WorkerStart(i)
    \/ \E i \in Indices : WorkerEnd(i)
    \/ \E i \in Indices : AsCompleted(i)

----------------------------------------------------------------------------
(* The analysis run of app.py: the Streamlit script from the Analyze       *)
(* button to the stored results, with the nearby-location retry            *)

\* the points of the map a user clicks
Points == {"p1", "p2"}

\* what get_address_from_coords answers: a town, another town, or the
\* placeholder of find_nearest_town
Names == {
        <<"D","u","b","b","o",","," ","N","S","W">>,
        <<"O","r","a","n","g","e",","," ","N","S","W">>,
        <<"R","e","g","i","o","n"," ","n","e","a","r"," ","-","3","2",".","2","6",","," ","1","4","8",".","6","0">>
    }

nearby_offsets == <<<<2, 0>>, <<-2, 0>>, <<0, 2>>, <<0, -2>>, <<5, 0>>, <<-5, 0>>>>

NoCoords == [point |-> "None", address |-> <<>>]

\* str.startswith
startswith(str, prefix) == MatchAt(str, 1, prefix)

\* the mutant of the button that is never disabled
analyze_btn_enabled_always(location_selected, is_an) == FALSE

\* disabled= of the Analyze button
analyze_btn_disabled(location_selected, is_an) == (~location_selected) \/ is_an

\* One call of get_land_listings(name, key) as the analysis run sees it:
\* the strict loop finds something or not; when it finds nothing the
\* fallback loop runs and finds something or not; the listings found are
\* scraped and returned.
get_land_listings(name, strict_found, relaxed_found) ==
    LET strict == IF strict_found THEN <<[found_at |-> name, pass |-> "strict"]>> ELSE <<>>
        relaxed == IF relaxed_found THEN <<[found_at |-> name, pass |-> "relaxed"]>> ELSE <<>>
    IN  IF get_land_listings_after_strict(strict) = "relaxed"
        THEN [passes |-> <<"strict", "relaxed">>, listings |-> relaxed]
        ELSE [passes |-> <<"strict">>, listings |-> strict]

\* the mutant of the nearby loop without its break
nearby_goes_on_always(found) == TRUE

\* the nearby loop goes on to the next offset ("if listings: ... break")
nearby_goes_on(found) == found = <<>>

\* the mutant of the except branch that leaves is_analyzing set
except_is_analyzing_kept == TRUE

\* is_analyzing as the except branch leaves it
except_is_analyzing == FALSE

AnalysisIdle ==
    /\ is_analyzing = FALSE
    /\ analysis_coords = NoCoords
    /\ analysis_done = FALSE
    /\ last_clicked = "None"
    /\ analyze_btn = FALSE
    /\ button_disabled = TRUE
    /\ overlay = FALSE
    /\ apc = "off"
    /\ address = <<>>
    /\ climate_data = "None"
    /\ search_location = <<>>
    /\ listings = <<>>
    /\ oi = 0
    /\ searched = <<>>

\* a new session after its first script run: nothing clicked, the button
\* disabled, no analysis
AnalysisInit ==
    /\ is_analyzing = FALSE
    /\ analysis_coords = NoCoords
    /\ analysis_done = FALSE
    /\ last_clicked = "None"
    /\ analyze_btn = FALSE
    /\ button_disabled = TRUE
    /\ overlay = FALSE
    /\ apc = "idle"
    /\ address = <<>>
    /\ climate_data = "None"
    /\ search_location = <<>>
    /\ listings = <<>>
    /\ oi = 0
    /\ searched = <<>>

otherVars == <<urlVars, impl, searchVars, scrapeVars, concurrentVars>>

\* the user clicks a point of the map, which the overlay does not cover;
\* the script reruns.  The click may come while a rerun is pending, as
\* between the trigger and the run that renders the overlay.
MapClick(p) ==
    /\ apc \in {"idle", "script"}
    /\ ~overlay
    /\ last_clicked' = p
    /\ apc' = "script"
    /\ UNCHANGED <<otherVars, is_analyzing, analysis_coords, analysis_done, analyze_btn,
                   button_disabled, overlay, address, climate_data, search_location,
                   listings, oi, searched>>

\* the user clicks the Analyze button, which is not disabled; the script
\* reruns
ButtonClick ==
    /\ apc \notin {"off", "script"}
    /\ ~button_disabled
    /\ analyze_btn' = TRUE
    /\ apc' = "script"
    /\ UNCHANGED <<otherVars, is_analyzing, analysis_coords, analysis_done, last_clicked,
                   button_disabled, overlay, address, climate_data, search_location,
                   listings, oi, searched>>

\* the script from its top to the start of the analysis: the locals are
\* new, the overlay and the button are rendered, then the script triggers
\* (and reruns), starts the analysis, or ends
ScriptTop ==
    /\ apc = "script"
    /\ LET is_an == is_analyzing
           location_selected == last_clicked # "None"
       IN  /\ overlay' = is_an
           /\ button_disabled' = analyze_btn_disabled(location_selected, is_an)
           /\ analyze_btn' = FALSE
           /\ IF analyze_btn /\ location_selected
              THEN /\ \E current_address \in Names :
                        analysis_coords' = [point |-> last_clicked,
                                            address |-> current_address]
                   /\ is_analyzing' = TRUE
                   /\ apc' = "script"
              ELSE IF is_analyzing /\ analysis_coords # NoCoords
              THEN /\ apc' = "geocode"
                   /\ UNCHANGED <<is_analyzing, analysis_coords>>
              ELSE /\ apc' = "idle"
                   /\ UNCHANGED <<is_analyzing, analysis_coords>>
    /\ address' = <<>>
    /\ climate_data' = "None"
    /\ search_location' = <<>>
    /\ listings' = <<>>
    /\ oi' = 0
    /\ searched' = <<>>
    /\ UNCHANGED <<otherVars, analysis_done, last_clicked>>

\* the except branch of the analysis: is_analyzing is reset, the error is
\* shown, the script ends without a rerun
Except ==
    /\ is_analyzing' = except_is_analyzing
    /\ apc' = "idle"
    /\ UNCHANGED <<analysis_coords, analysis_done, last_clicked, analyze_btn,
                   button_disabled, overlay, address, climate_data, search_location,
                   listings, oi, searched>>

\* A. the address stored at the trigger, or a new lookup without one
Geocoding ==
    /\ apc = "geocode"
    /\ \/ /\ IF analysis_coords.address # <<>>
             THEN address' = analysis_coords.address
             ELSE address' \in Names
          /\ apc' = "satellite"
          /\ UNCHANGED <<is_analyzing, analysis_coords, analysis_done, last_clicked,
                         analyze_btn, button_disabled, overlay, climate_data,
                         search_location, listings, oi, searched>>
       \/ Except
    /\ UNCHANGED otherVars

\* B. and C. the satellite image URL and the climate data
SatelliteAndClimate ==
    /\ apc = "satellite"
    /\ \/ /\ climate_data' \in {"None", "climate"}
          /\ apc' = "listings"
          /\ UNCHANGED <<is_analyzing, analysis_coords, analysis_done, last_clicked,
                         analyze_btn, button_disabled, overlay, address,
                         search_location, listings, oi, searched>>
       \/ Except
    /\ UNCHANGED otherVars

\* D. the search at the address; without listings the nearby loop follows
Listings ==
    /\ apc = "listings"
    /\ \/ \E strict_found, relaxed_found \in BOOLEAN :
            LET r == get_land_listings(address, strict_found, relaxed_found) IN
            /\ search_location' = address
            /\ listings' = r.listings
            /\ searched' = Append(searched, [name |-> address, offset |-> 0,
                                             passes |-> r.passes, listings |-> r.listings])
            /\ apc' = IF r.listings = <<>> THEN "nearby" ELSE "ai"
            /\ oi' = 1
            /\ UNCHANGED <<is_analyzing, analysis_coords, analysis_done, last_clicked,
                           analyze_btn, button_disabled, overlay, address, climate_data>>
       \/ Except
    /\ UNCHANGED otherVars

\* one pass of the loop over nearby_offsets
Nearby ==
    /\ apc = "nearby"
    /\ \/ \E nearby_address \in Names, strict_found, relaxed_found \in BOOLEAN :
            LET skip == nearby_address = address
                        \/ startswith(nearby_address, <<"R","e","g","i","o","n"," ","n","e","a","r">>)
                r == get_land_listings(nearby_address, strict_found, relaxed_found)
                found == IF skip THEN <<>> ELSE r.listings
                goes_on == skip \/ nearby_goes_on(found)
            IN  /\ listings' = IF skip THEN listings ELSE r.listings
                /\ searched' = IF skip THEN searched
                               ELSE Append(searched, [name |-> nearby_address, offset |-> oi,
                                                      passes |-> r.passes,
                                                      listings |-> r.listings])
                /\ search_location' = IF found # <<>> THEN nearby_address ELSE search_location
                /\ oi' = oi + 1
                /\ apc' = IF goes_on /\ oi < Len(nearby_offsets) THEN "nearby" ELSE "ai"
                /\ UNCHANGED <<is_analyzing, analysis_coords, analysis_done, last_clicked,
                               analyze_btn, button_disabled, overlay, address,
                               climate_data>>
       \/ Except
    /\ UNCHANGED otherVars

\* E. the AI analysis or its error result, the stored results, the reset of
\* is_analyzing and the rerun
AnalyzeAndStore ==
    /\ apc = "ai"
    /\ \/ /\ analysis_done' = TRUE
          /\ is_analyzing' = FALSE
          /\ apc' = "script"
          /\ UNCHANGED <<analysis_coords, last_clicked, analyze_btn, button_disabled,
                         overlay, address, climate_data, search_location, listings, oi,
                         searched>>
       \/ Except
    /\ UNCHANGED otherVars

AnalysisNext ==
    \/ \E p \in Points : MapClick(p)
    \/ ButtonClick
    \/ ScriptTop
    \/ Geocoding
    \/ SatelliteAndClimate
    \/ Listings
    \/ Nearby
    \/ AnalyzeAndStore

----------------------------------------------------------------------------
(* Specifications: one per component; the other components stay idle       *)

InitUrl == UrlInit /\ impl = "none" /\ SearchIdle /\ ScrapeIdle /\ AnalysisIdle /\ ConcurrentIdle

SpecUrl == InitUrl /\ [][UrlNext]_vars

InitSearch == SearchInit /\ UrlIdle /\ ScrapeIdle /\ AnalysisIdle /\ ConcurrentIdle

SpecSearch == InitSearch /\ [][SearchNext]_vars

InitScrape == ScrapeInit /\ UrlIdle /\ SearchIdle /\ AnalysisIdle /\ ConcurrentIdle

SpecScrape == InitScrape /\ [][ScrapeNext]_vars

\* The event loop runs every task that is ready, and every request ends, by
\* its response or by its timeout of 10 seconds: a step of the run that is
\* possible is taken.
SpecScrapeFair == InitScrape /\ [][ScrapeNext]_vars /\ WF_vars(ScrapeNext)

InitConcurrent == ConcurrentInit /\ UrlIdle /\ ScrapeIdle /\ AnalysisIdle

SpecConcurrent == InitConcurrent /\ [][ConcurrentNext]_vars

InitAnalysis == AnalysisInit /\ impl = "app" /\ UrlIdle /\ SearchIdle /\ ScrapeIdle /\ ConcurrentIdle

SpecAnalysis == InitAnalysis /\ [][AnalysisNext]_vars

\* the steps of the script, as opposed to those of the user
ScriptStep ==
    ScriptTop \/ Geocoding \/ SatelliteAndClimate \/ Listings \/ Nearby \/ AnalyzeAndStore

\* Streamlit runs a script run to its end or to its rerun, and every
\* external call of the analysis returns or raises; the user is free to
\* click or not.
SpecAnalysisFair == InitAnalysis /\ [][AnalysisNext]_vars /\ WF_vars(ScriptStep)

----------------------------------------------------------------------------
(* Properties of the classifiers                                           *)

\* the claims' words for the five identifier shapes, on the lowercased URL
EndsWithId(s) ==
    LET n == IF Len(s) > 0 /\ s[Len(s)] = "/" THEN Len(s) - 1 ELSE Len(s) IN
    /\ n >= 2
    /\ s[n] \in Digits
    /\ \E i \in 1..(n - 1) : s[i] = "-" /\ \A k \in (i + 1)..n : s[k] \in Digits

MidPathId(s) ==
    \E j \in 3..Len(s) :
        /\ s[j] = "-"
        /\ s[j - 1] \in Digits
        /\ \E i \in 1..(j - 2) : s[i] = "/" /\ \A k \in (i + 1)..(j - 1) : s[k] \in Digits

StreetSlug(s) ==
    \E i \in 1..Len(s) : \E d \in 1..5 :
        /\ i + d + 2 <= Len(s)
        /\ s[i] = "/"
        /\ \A k \in (i + 1)..(i + d) : s[k] \in Digits
        /\ s[i + d + 1] = "-"
        /\ s[i + d + 2] \in LowerSet

PropertyId(s) ==
    \E i \in 11..Len(s) :
        s[i] \in Digits /\ MatchAt(s, i - 10, <<"/","p","r","o","p","e","r","t","y","/">>)

LotId(s) ==
    \E i \in 6..Len(s) : s[i] \in Digits /\ MatchAt(s, i - 5, <<"/","l","o","t","-">>)

FiveShapes(s) ==
    EndsWithId(s) \/ MidPathId(s) \/ StreetSlug(s) \/ PropertyId(s) \/ LotId(s)

AppBlocked(s) == \E p \in blocklist_patterns : Contains(s, p)
SvcBlocked(s) == \E b \in blocklist : Contains(s, b)
IsFarmbuy(s) == Contains(s, <<"f","a","r","m","b","u","y",".","c","o","m">>)

\* The blocklist terms the claim names; each is in both blocklists.
NamedBlockTerms == {
        <<"/","r","e","g","i","o","n","/">>,
        <<"/","a","g","e","n","c","y","/">>,
        <<"/","s","e","a","r","c","h">>,
        <<"p","a","g","e","=">>,
        <<"/","s","o","l","d","/">>,
        <<"/","b","l","o","g","/">>
    }

\* C1: a URL whose lowercased form contains a blocklist substring (the named
\* terms among them) is classified false by both classifiers, whatever
\* identifier shape it also matches.
C1_BlocklistVeto ==
    LET l == Lower(url) IN
    /\ NamedBlockTerms \subseteq (blocklist_patterns \cap blocklist)
    /\ ("app" \in classified /\ AppBlocked(l)) => ~app_valid
    /\ ("services" \in classified /\ SvcBlocked(l)) => ~svc_valid

\* C1 witness: a blocklisted URL that also carries a trailing id has been
\* classified by both and rejected by both.
C1_Witness ==
    LET l == Lower(url) IN
    /\ classified = {"app", "services"}
    /\ Contains(l, <<"/","r","e","g","i","o","n","/">>)
    /\ EndsWithId(l)
    /\ ~app_valid /\ ~svc_valid

C3_DefaultReject ==
    LET l == Lower(url) IN
    /\ ("app" \in classified /\ ~AppBlocked(l) /\ ~FiveShapes(l))
            => ~app_valid
    /\ ("services" \in classified /\ ~SvcBlocked(l) /\ ~FiveShapes(l))
            => ~svc_valid

----------------------------------------------------------------------------
(* Properties of the search aggregator                                     *)

\* a synthetic "Region near ..." name
IsPlaceholder(loc) == MatchAt(loc, 1, <<"R","e","g","i","o","n"," ","n","e","a","r">>)

RelaxedIssued == {k \in 1..Len(issued) : issued[k].pass = "relaxed"}

\* C4: no two candidates of the returned sequence share the same URL.
C4_NoDuplicateUrls ==
    phase = "done" =>
        \A i, j \in 1..Len(candidates) :
            i # j => candidates[i].link # candidates[j].link

\* C5: when the strict pass ended with zero candidates and the location is
\* not a placeholder, the run has issued the relaxed query of every source
\* by the time it returns; when the strict pass ended with at least one
\* candidate, no relaxed query is ever issued.
C5_FallbackEscalation ==
    /\ (phase = "done" /\ strict_yield = 0 /\ ~IsPlaceholder(location_name)) =>
            \A k \in 1..Len(sites) :
                \E m \in RelaxedIssued : issued[m].source = sites[k].source
    /\ strict_yield > 0 => RelaxedIssued = {}
    /\ RelaxedIssued # {} => strict_yield = 0

\* C5 witness: a run at a real location whose strict pass found nothing has
\* returned after one relaxed query per source, with a candidate from them.
C5_Witness ==
    /\ phase = "done"
    /\ strict_yield = 0
    /\ ~IsPlaceholder(location_name)
    /\ Cardinality(RelaxedIssued) = Len(sites)
    /\ candidates # <<>>

\* C6: with a placeholder location and a strict pass that found nothing, the
\* run issues no relaxed query and returns the empty sequence.
C6_PlaceholderSkip ==
    (phase = "done" /\ IsPlaceholder(location_name) /\ strict_yield = 0) =>
        (RelaxedIssued = {} /\ candidates = <<>>)
----------------------------------------------------------------------------
(* Properties of the scrape coordinator                                    *)

\* the fetch of candidate i fails, times out or returns nothing
FetchFailed(i) == net[i].kind # "ok" \/ net[i].len = 0

\* the text the fetch of candidate i returns when it does not fail
FetchedText(i) ==
    [origin |-> "page", of |-> raw_items[i].link,
     len |-> IF net[i].len > 5000 THEN 5000 ELSE net[i].len]

\* the listings in results with the URL of candidate i, and the candidates
\* with that URL
ListingsOf(i) == {k \in 1..Len(results) : results[k].url = raw_items[i].link}
CandidatesLike(i) == {j \in Indices : raw_items[j].link = raw_items[i].link}

HasSnippet(i) == raw_items[i].snippet.origin = "snippet"

\* the first 3000 characters of a text under app.py, the text itself
\* under services.py
Cut(t) == IF impl = "app" /\ t.len > 3000 THEN [t EXCEPT !.len = 3000] ELSE t

\* the snippet of candidate i; without one, the stand-in of the pipeline
SnippetOrStandIn(i) ==
    IF HasSnippet(i) THEN raw_items[i].snippet
    ELSE IF impl = "app" THEN [origin |-> "default", of |-> <<>>, len |-> 25]
    ELSE [origin |-> "str", of |-> <<>>, len |-> 0]

\* the fetches in flight: request issued and not yet completed
InFlight == {i \in Indices : task[i] \in {"fetching", "running"}}

\* C7 as stated: a finished run returns exactly N listings, one per
\* candidate, and each failed candidate's listing carries that candidate's
\* snippet as scraped_content.
C7_Original ==
    spc = "done" =>
        /\ Len(results) = Len(raw_items)
        /\ \A i \in Indices :
            /\ Cardinality(ListingsOf(i)) = Cardinality(CandidatesLike(i))
            /\ FetchFailed(i) /\ HasSnippet(i) =>
                \A k \in ListingsOf(i) : results[k].scraped_content = raw_items[i].snippet

\* C7 amended: a finished run returns exactly N listings, one per candidate,
\* and each failed candidate's listing carries that candidate's snippet, cut
\* to its first 3000 characters under app.py and whole under services.py;
\* for a candidate without snippet it carries "No description available."
\* (app.py) or the empty string (services.py).
C7_ScrapeCompleteness ==
    spc = "done" =>
        /\ Len(results) = Len(raw_items)
        /\ \A i \in Indices :
            /\ Cardinality(ListingsOf(i)) = Cardinality(CandidatesLike(i))
            /\ FetchFailed(i) =>
                \A k \in ListingsOf(i) :
                    results[k].scraped_content = Cut(SnippetOrStandIn(i))

\* a finished app.py run of two candidates or more where a fetch failed for
\* a candidate whose snippet is longer than 3000 and another fetch succeeded
C7_Witness ==
    /\ spc = "done" /\ impl = "app" /\ Len(results) >= 2
    /\ \E i \in Indices : FetchFailed(i) /\ raw_items[i].snippet.len > 3000
    /\ \E j \in Indices : ~FetchFailed(j)

\* C8: at every moment of a scrape run at most 10 content fetches are in
\* flight, whatever the number of candidates and the order of completions.
C8_ConcurrencyBound == Cardinality(InFlight) <= 10

\* eleven candidates, one fetch has completed, and the eleventh fetch has
\* taken the released permit: ten are in flight again
C8_Witness ==
    /\ Len(raw_items) > 10
    /\ Cardinality(InFlight) = 10
    /\ task[Len(raw_items)] = "fetching"
    /\ TasksIn("done") # {}

\* C9: a failed or timed-out fetch never aborts the run or a sibling fetch
\* and never drops its candidate: the run does not end by an exception,
\* every completed fetch has the outcome of its own request, and in a
\* finished run a failed candidate has a snippet-only listing while every
\* other candidate has a listing with its own page text.
C9_FailureIsolation ==
    /\ spc # "raised"
    /\ \A i \in Indices :
        /\ task[i] = "done" =>
            fetched[i] = IF net[i].kind = "ok" /\ net[i].len > 0 THEN FetchedText(i)
                         ELSE IF net[i].kind = "ok" THEN EmptyText ELSE NoneValue
        /\ task[i] \in {"finished", "collected"} =>
            ~fetched[i].raised /\ fetched[i].value.url = raw_items[i].link
    /\ spc = "done" =>
        \A i \in Indices :
            /\ ListingsOf(i) # {}
            /\ \A k \in ListingsOf(i) :
                IF FetchFailed(i)
                THEN results[k].scraped_content.origin # "page"
                ELSE /\ results[k].scraped_content.origin = "page"
                     /\ results[k].scraped_content.of = raw_items[i].link

\* a finished run in which one fetch timed out and its candidate has a
\* snippet listing, and another candidate's fetch returned its page
C9_Witness ==
    /\ spc = "done"
    /\ \E i, j \in Indices :
        /\ net[i].kind = "timeout" /\ net[j].kind = "ok" /\ net[j].len > 0
        /\ \E m \in ListingsOf(i) : results[m].scraped_content.origin = "snippet"
        /\ \E m \in ListingsOf(j) : results[m].scraped_content.origin = "page"

\* C10 as stated: a listing's scraped_content is the fetched text when the
\* fetch returned non-empty text and the candidate's snippet otherwise, so
\* it is non-empty whenever the snippet is.
C10_Original ==
    \A k \in 1..Len(results) :
        \E i \in Indices :
            /\ results[k].url = raw_items[i].link
            /\ ~FetchFailed(i) => results[k].scraped_content = FetchedText(i)
            /\ FetchFailed(i) /\ HasSnippet(i) =>
                results[k].scraped_content = raw_items[i].snippet
            /\ HasSnippet(i) => results[k].scraped_content.len > 0

\* C10 amended: a listing's scraped_content is the fetched text when the
\* fetch returned non-empty text and the candidate's snippet otherwise (the
\* stand-in of the pipeline if it has none), under app.py cut to the first
\* 3000 characters; it is non-empty whenever the snippet is.
C10_ContentSelection ==
    \A k \in 1..Len(results) :
        \E i \in Indices :
            /\ results[k].url = raw_items[i].link
            /\ results[k].scraped_content =
                    IF FetchFailed(i) THEN Cut(SnippetOrStandIn(i)) ELSE Cut(FetchedText(i))
            /\ HasSnippet(i) => results[k].scraped_content.len > 0

\* an app.py run has appended a listing with the first 3000 characters of
\* a longer page and a listing whose page was empty and that has the snippet
C10_Witness ==
    /\ impl = "app"
    /\ \E k, m \in 1..Len(results) :
        /\ results[k].scraped_content.origin = "page"
        /\ results[k].scraped_content.len = 3000
        /\ results[m].scraped_content.origin = "snippet"
        /\ \E i \in Indices :
            /\ raw_items[i].link = results[m].url
            /\ net[i] = [kind |-> "ok", len |-> 0]

\* C11: every listing's scraped_content is no longer than the fixed maximum
\* (5000, the largest the specification names), whether it is fetched text
\* or the snippet fallback, for any snippet length.
C11_LengthCap ==
    \A k \in 1..Len(results) : results[k].scraped_content.len <= 5000

\* listing k is built from candidate i: title, url and image are the
\* candidate's, and the content is the text of the candidate's own page, the
\* candidate's own snippet, or the stand-in of a candidate without snippet
BuiltFrom(k, i) ==
    LET c == results[k].scraped_content IN
    /\ results[k].url = raw_items[i].link
    /\ results[k].title = raw_items[i].title
    /\ results[k].image = IF raw_items[i].imageUrl # AbsentStr
                          THEN raw_items[i].imageUrl ELSE raw_items[i].thumbnail
    /\ c.origin = "page" => c.of = raw_items[i].link /\ net[i].kind = "ok"
    /\ c.origin = "snippet" => HasSnippet(i) /\ c.of = raw_items[i].snippet.of
    /\ c.origin \in {"default", "str"} => ~HasSnippet(i) \/ raw_items[i].snippet.len = 0

\* C12: under any completion order each listing is built from exactly one
\* candidate (in services.py the one at the same position), never from a
\* sibling, and in a finished run the listings and the candidates of a URL
\* are equally many.
C12_ListingCandidatePairing ==
    /\ \A k \in 1..Len(results) :
        IF impl = "services" THEN BuiltFrom(k, k)
        ELSE \E i \in Indices : task[i] = "collected" /\ BuiltFrom(k, i)
    /\ spc = "done" =>
        \A i \in Indices : Cardinality(ListingsOf(i)) = Cardinality(CandidatesLike(i))

\* a finished app.py run in which the second candidate's listing, holding
\* the text of its own page, was collected before the first candidate's
C12_Witness ==
    /\ spc = "done" /\ impl = "app" /\ Len(results) >= 2
    /\ results[1].url = raw_items[2].link
    /\ results[1].scraped_content.origin = "page"
    /\ results[2].url = raw_items[1].link

----------------------------------------------------------------------------
(* Properties of the search aggregator: failures, filters, queries, order  *)

\* this step is one pass of a query loop: a request was issued and answered
RequestStep == issued' # issued

StrictIssued == {k \in 1..Len(issued) : issued[k].pass = "strict"}

\* every source's query of the pass has been issued
AllIssued(pass) ==
    \A k \in 1..Len(sites) :
        \E m \in 1..Len(issued) :
            issued[m].pass = pass /\ issued[m].source = sites[k].source

IsPrefix(a, b) == Len(a) <= Len(b) /\ SubSeq(b, 1, Len(a)) = a

\* a is b with some elements left out, the others in the order of b
RECURSIVE IsSubsequence(_, _)
IsSubsequence(a, b) ==
    IF a = <<>> THEN TRUE
    ELSE IF b = <<>> THEN FALSE
    ELSE IF Head(a) = Head(b) THEN IsSubsequence(Tail(a), Tail(b))
    ELSE IsSubsequence(a, Tail(b))

\* C13: when the request of one source query fails with a transport error,
\* that query is skipped (it adds no candidate and removes none), the run
\* is not aborted, the loop goes on to the next source, and a run that
\* returns has issued the strict query of every source.
C13_PartialSourceFailure ==
    [][ /\ (RequestStep /\ data'.kind = "exception") =>
            /\ phase' # "raised"
            /\ candidates' = candidates
            /\ qi' = IF qi = Len(sites) THEN 1 ELSE qi + 1
            /\ qi < Len(sites) => phase' = phase
        /\ RequestStep => IsPrefix(candidates, candidates')
        /\ phase' = "done" => AllIssued("strict")'
      ]_vars

\* a run has returned candidates of earlier queries although the request of
\* its last query failed
C13_Witness ==
    /\ phase = "done"
    /\ data.kind = "exception"
    /\ candidates # <<>>
    /\ Cardinality(StrictIssued) = Len(sites)

\* what the caller of the search receives, and what it receives when the
\* provider answered and no listing was found
Outcome == [raised |-> phase = "raised", value |-> candidates]
NoListingsOutcome == [raised |-> FALSE, value |-> <<>>]

\* C14: the outcome of a run in which every request failed (the provider
\* is unavailable) differs from the outcome of a run in which the provider
\* answered and no listing was found, which is the empty sequence.
C14_DistinguishableFailures ==
    /\ (phase = "done" /\ answered /\ candidates = <<>>) => Outcome = NoListingsOutcome
    /\ (phase = "done" /\ ~answered) => Outcome # NoListingsOutcome

\* C15: no run ends by an exception, and when no candidate is left after
\* the strict and the relaxed pass the search returns the empty sequence and
\* the orchestrator returns the empty sequence at once.
C15_TotalFailureIsValue ==
    /\ phase # "raised" /\ spc # "raised"
    /\ (phase = "done" /\ candidates = <<>> /\ spc # "idle") =>
            (spc = "done" /\ raw_items = <<>> /\ results = <<>>)

\* the orchestrator has returned the empty sequence after both passes, in a
\* run with an answered request and a failed last request
C15_Witness ==
    /\ spc = "done" /\ results = <<>>
    /\ Cardinality(RelaxedIssued) = Len(sites)
    /\ answered
    /\ data.kind = "exception"

\* C16: a response without 'organic' adds no candidate and raises no error;
\* the loop goes on to the next source as after any other response.
C16_MalformedResponse ==
    [][ (RequestStep /\ data'.kind = "no_organic") =>
            /\ phase' # "raised"
            /\ candidates' = candidates
            /\ qi' = IF qi = Len(sites) THEN 1 ELSE qi + 1
            /\ qi < Len(sites) => phase' = phase
            /\ qi = Len(sites) => phase' \in {"relaxed", "done"}
      ]_vars

\* the response of a middle query had no 'organic' and the loop is at the
\* next source, with the candidates of an earlier query kept
C16_Witness ==
    /\ data.kind = "no_organic"
    /\ phase = "strict" /\ qi = 3
    /\ candidates # <<>>

\* the phrases the claim names
GenericContentPhrases == {
        <<"m","a","r","k","e","t"," ","r","e","p","o","r","t">>,
        <<"b","u","y","e","r","s"," ","g","u","i","d","e">>,
        <<"b","u","y","e","r","'","s"," ","g","u","i","d","e">>,
        <<"n","e","w","s"," ","a","r","t","i","c","l","e">>,
        <<"b","l","o","g"," ","p","o","s","t">>
    }

\* C17: no accepted candidate has a title whose lowercased form contains
\* one of the excluded generic-content phrases.
C17_TitleCheck ==
    \A k \in 1..Len(candidates) :
        \A p \in GenericContentPhrases : ~Contains(Lower(candidates[k].title), p)

\* C18: after a relaxed request, every result of the response (within the
\* first 15) whose URL contains no blocklisted substring is a candidate,
\* whether or not the URL matches a digit-rule pattern.
C18_RelaxedFilter ==
    (issued # <<>> /\ issued[Len(issued)].pass = "relaxed" /\ data.kind = "organic") =>
        \A j \in 1..Len(data.organic) :
            (j <= 15 /\ ~AppBlocked(Lower(data.organic[j].link))
                     /\ ~SvcBlocked(Lower(data.organic[j].link))) =>
                \E k \in 1..Len(candidates) : candidates[k].link = data.organic[j].link

\* C19: the relaxed pass issues at most one query per source, all of them
\* by the time it returns, and every relaxed query differs from the strict
\* query of its source.
C19_RelaxedVariant ==
    /\ \A m, n \in RelaxedIssued : issued[m].source = issued[n].source => m = n
    /\ (phase = "done" /\ RelaxedIssued # {}) => AllIssued("relaxed")
    /\ \A m \in RelaxedIssued :
        \A k \in 1..Len(sites) :
            sites[k].source = issued[m].source => issued[m].q # sites[k].query

\* C20: every request appends to the candidate sequence: the candidates so
\* far stay in front in their order, and the new ones are results of this
\* response in the order of the response; the sequence is handed on as is.
C20_SourceOrdering ==
    [][ /\ RequestStep =>
            /\ IsPrefix(candidates, candidates')
            /\ IsSubsequence(SubSeq(candidates', Len(candidates) + 1, Len(candidates')),
                             data'.organic)
        /\ ~RequestStep => candidates' = candidates
        /\ raw_items' # raw_items => raw_items' = candidates
      ]_vars

\* two different candidates, the second from the latest response, which
\* does not hold the first: the first is from an earlier query
C20_Witness ==
    /\ Len(candidates) = 2
    /\ candidates[1] # candidates[2]
    /\ data.kind = "organic" /\ data.organic = <<candidates[2]>>
    /\ Len(issued) >= 2

----------------------------------------------------------------------------
(* Properties of the analysis run                                          *)

\* the searches of the run made so far, by position
Searches == 1..Len(searched)

\* the run has left the nearby loop (or never entered it)
PastNearby == apc = "ai" \/ (apc = "script" /\ searched # <<>>)

\* C21 (nearby-location retry): the nearby locations are searched only
\* after the search at the original location returned nothing, at offsets
\* out of the six of nearby_offsets and in their order; no search follows a
\* search that found listings, and the listings the run goes on with are
\* those of the last search made, under its location name when it found any.
C21_NearbyRetry ==
    /\ Len(nearby_offsets) = 6
    /\ \A k \in Searches :
         /\ (k = 1) = (searched[k].offset = 0)
         /\ k = 1 => searched[k].name = address
         /\ searched[k].offset \in 0..Len(nearby_offsets)
         /\ k < Len(searched) =>
              /\ searched[k].listings = <<>>
              /\ searched[k].offset < searched[k + 1].offset
    /\ apc = "nearby" => /\ searched # <<>>
                         /\ searched[Len(searched)].listings = <<>>
                         /\ searched[Len(searched)].offset < oi
                         /\ oi \in 1..Len(nearby_offsets)
    /\ PastNearby =>
         /\ listings = searched[Len(searched)].listings
         /\ listings # <<>> => search_location = searched[Len(searched)].name
         /\ listings = <<>> => search_location = address

\* a run that found nothing at the address and at one nearby location, and
\* found listings at a later offset
C21_Witness ==
    /\ apc = "ai"
    /\ Len(searched) >= 3
    /\ listings # <<>>
    /\ searched[Len(searched)].offset >= 3
    /\ search_location # address

\* C22 (independent tiers), as claimed: a search at a nearby location makes
\* the strict pass only.
C22_NearbyStrictOnly ==
    \A k \in Searches :
        searched[k].offset > 0 => searched[k].passes = <<"strict">>

----------------------------------------------------------------------------
(* Properties of the content fetchers                                      *)

\* what scrape_listing_page returned for candidate i
PageOf(i) == scrape_listing_page(raw_items[i].link, net[i])

\* C23 (fetcher failure collapse): a fetch never raises; it returns None
\* exactly when its request had another status than 200, timed out or
\* failed, and the text of the page, cut to 5000 characters, when the status
\* was 200.  The caller then has no page text for a failed candidate.
C23_FetcherFailureCollapse ==
    /\ spc # "raised"
    /\ \A i \in Indices :
        /\ task[i] = "done" =>
            /\ (fetched[i] = NoneValue) = (net[i].kind # "ok")
            /\ net[i].kind = "ok" => fetched[i] = _clean_html(raw_items[i].link, net[i].len)
        /\ task[i] \in {"finished", "collected"} =>
            /\ ~PageOf(i).raised
            /\ (PageOf(i).value = NoneValue) = (net[i].kind # "ok")
            /\ net[i].kind = "ok" => PageOf(i).value.origin \in {"page", "str"}
            /\ ~fetched[i].raised
            /\ net[i].kind # "ok" => fetched[i].value.scraped_content.origin # "page"

\* a gather in which one fetch got a non-200 status and returned None and
\* another returned its page
C23_Witness ==
    /\ impl = "services"
    /\ \E i, j \in Indices :
        /\ task[i] = "done" /\ net[i].kind = "status" /\ fetched[i] = NoneValue
        /\ task[j] = "done" /\ net[j].kind = "ok" /\ fetched[j].origin = "page"

----------------------------------------------------------------------------
(* Properties of the progress notifications                                *)

\* C24 (progress milestones), as claimed: a finished run with a status
\* callback and K > 0 candidates has called it three times, with a start
\* message, the "Scraping K sites" message and a completion message in this
\* order, each with a fraction between 0 and 1.
C24_ProgressMilestones ==
    (impl = "services" /\ spc = "done" /\ status_callback /\ raw_items # <<>>) =>
        /\ Len(notified) = 3
        /\ notified[1].message = <<"Finding properties...">>
        /\ notified[2].message = <<"Scraping ">> \o Decimal(Len(raw_items))
                                     \o <<" sites in parallel...">>
        /\ \A k \in 1..Len(notified) : notified[k].tenths \in 0..10

\* what the code does: the start and the "Scraping K sites" calls only
NotifiedStartAndScraping ==
    (impl = "services" /\ status_callback /\ raw_items # <<>> /\ spc \in {"gather", "done"}) =>
        notified = <<[message |-> <<"Finding properties...">>, tenths |-> 1],
                     [message |-> <<"Scraping ">> \o Decimal(Len(raw_items))
                                      \o <<" sites in parallel...">>, tenths |-> 3]>>

----------------------------------------------------------------------------
(* Properties of two interleaved searches                                  *)

\* the URLs of a list of candidates
LinksOf(cands) == {cands[k].link : k \in 1..Len(cands)}

\* the candidates of a call after one more response, were it running alone
RunAlone(cands, resp) ==
    IF resp.kind = "organic"
    THEN search_listings_items(resp.organic, cands, LinksOf(cands)).candidates
    ELSE cands

\* C25 (dedup set isolation): the seen-URL set of a call holds the URLs of
\* its own candidates and nothing of the other call; a pass of one call
\* changes no local of the other; and a pass of the first call leaves it
\* with the candidates it would have running alone on the same response:
\* every valid URL of the response is among them, whether or not the other
\* call has seen it.
C25_DedupSetIsolation ==
    [][ /\ seen_urls' = LinksOf(candidates')
        /\ call2'.seen_urls = LinksOf(call2'.candidates)
        /\ call2' # call2 => UNCHANGED <<candidates, seen_urls, phase, qi>>
        /\ issued' # issued =>
            /\ call2' = call2
            /\ candidates' = RunAlone(candidates, data')
            /\ \A k \in 1..Len(data'.organic) :
                ListingService_is_valid_listing_url_of[data'.organic[k].link] =>
                    data'.organic[k].link \in LinksOf(candidates')
      ]_vars

\* both calls have the same URL among their candidates, and the latest
\* response of the first call carried it
C25_Witness ==
    /\ call2.phase # "idle"
    /\ \E u \in seen_urls \cap call2.seen_urls :
        /\ u \in LinksOf(candidates) /\ u \in LinksOf(call2.candidates)
        /\ u \in LinksOf(data.organic)

----------------------------------------------------------------------------
(* Properties of the per-source rule                                       *)

\* the claim's words for the other identifier patterns, on the lowercased
\* URL: a / followed by six digits or more, /property- or /property/, and a
\* /<digits>-<letter> slug
LongNumericId(s) ==
    \E i \in 1..Len(s) :
        /\ s[i] = "/"
        /\ i + 6 <= Len(s)
        /\ \A k \in (i + 1)..(i + 6) : s[k] \in Digits

HasPropertyPath(s) ==
    \/ Contains(s, <<"/","p","r","o","p","e","r","t","y","-">>)
    \/ Contains(s, <<"/","p","r","o","p","e","r","t","y","/">>)

NumberSlug(s) ==
    \E i \in 1..Len(s) : \E j \in (i + 2)..(Len(s) - 1) :
        /\ s[i] = "/"
        /\ \A k \in (i + 1)..(j - 1) : s[k] \in Digits
        /\ s[j] = "-"
        /\ s[j + 1] \in LowerSet

\* C26 (per-source override): ListingService.is_valid_listing_url accepts a
\* farmbuy.com URL without blocklist term exactly when it ends with
\* -<digits>, with or without a slash behind; a long numeric id, /property
\* or a number slug do not make it valid.  A URL of another domain without
\* blocklist term is accepted exactly when it has one of the four patterns.
C26_PerSourceOverride ==
    LET l == Lower(url) IN
    ("services" \in classified /\ ~SvcBlocked(l)) =>
        IF IsFarmbuy(l)
        THEN svc_valid = EndsWithId(l)
        ELSE svc_valid = (EndsWithId(l) \/ LongNumericId(l) \/ HasPropertyPath(l)
                          \/ NumberSlug(l))

\* a farmbuy.com URL with one of the other patterns and no id at its end,
\* classified and rejected
C26_Witness ==
    LET l == Lower(url) IN
    /\ "services" \in classified
    /\ IsFarmbuy(l) /\ ~SvcBlocked(l)
    /\ LongNumericId(l) \/ HasPropertyPath(l) \/ NumberSlug(l)
    /\ ~EndsWithId(l)
    /\ ~svc_valid

\* a URL of another domain with /property/ and no id at its end, classified
\* and accepted
OtherDomainAccepted ==
    LET l == Lower(url) IN
    /\ "services" \in classified
    /\ ~IsFarmbuy(l) /\ ~SvcBlocked(l)
    /\ HasPropertyPath(l) /\ ~EndsWithId(l)
    /\ svc_valid

----------------------------------------------------------------------------
(* Properties of the semaphore                                             *)

\* the fetches that hold a permit
Holding == {i \in Indices : task[i] = "fetching"}

\* C27 (no permit leak): during a gather the permits held are those of the
\* fetches in flight, whatever the outcomes of the fetches that ended; and
\* a gather that has begun ends: every fetch gets a permit and completes,
\* nothing waits, and no permit is held.
C27_NoPermitLeak ==
    /\ [](impl = "services" /\ spc \in {"gather", "done"} /\ raw_items # <<>> =>
            max_concurrency - permits = Cardinality(Holding))
    /\ (impl = "services" /\ spc = "gather") ~>
            /\ spc = "done"
            /\ \A i \in Indices : task[i] = "done"
            /\ waiters = <<>>
            /\ max_concurrency - permits = 0

\* a finished gather of more fetches than permits, some of them timed out:
\* no permit is held
C27_Witness ==
    /\ impl = "services" /\ spc = "done"
    /\ Len(raw_items) > max_concurrency
    /\ \E i \in Indices : net[i].kind = "timeout"
    /\ \A i \in Indices : task[i] = "done"
    /\ permits = max_concurrency

----------------------------------------------------------------------------
(* Properties of the analysis run (continued)                              *)

\* C28 (no repeated location search), as claimed: within one run no two
\* calls of the listing search have the same location name.
C28_NoRepeatedSearch ==
    \A j, k \in Searches : j < k => searched[j].name # searched[k].name

\* what the code does keep: a nearby search is never made for the address
\* of the run or for a "Region near" placeholder
NearbySkipsAddressAndPlaceholder ==
    \A k \in Searches :
        searched[k].offset > 0 =>
            /\ searched[k].name # address
            /\ ~startswith(searched[k].name, <<"R","e","g","i","o","n"," ","n","e","a","r">>)

\* where the script is while the analysis runs
RunSteps == {"geocode", "satellite", "listings", "nearby", "ai"}

C30_SingleAnalysis ==
    [][ /\ analysis_coords' # analysis_coords =>
            /\ ~is_analyzing /\ is_analyzing'
            /\ last_clicked # "None"
            /\ analysis_coords'.point = last_clicked
        /\ (~is_analyzing /\ is_analyzing') => analysis_coords'.point = last_clicked
        /\ is_analyzing => analysis_coords' = analysis_coords
        /\ apc' \in RunSteps =>
            /\ is_analyzing' /\ analysis_coords' # NoCoords
            /\ address' \in {<<>>, analysis_coords'.address}
      ]_vars

\* the run has resolved the address captured at the trigger, while the map
\* shows a point clicked after it
C30_Witness ==
    /\ apc \in RunSteps
    /\ is_analyzing
    /\ address = analysis_coords.address /\ address # <<>>
    /\ last_clicked # analysis_coords.point

====
